---- MODULE Spec2Model ----
(***************************************************************************)
(* Model of accumulator.Accumulator (src/accumulator/accumulator.go):      *)
(* producers calling Push, an external caller of Flush and Close, and the  *)
(* worker goroutine started by NewAccumulator, all sharing the Queue, the  *)
(* mutex, the ticker and closeChan.                                        *)
(*                                                                         *)
(* The Queue is a stack held as a sequence whose head is the top.  The     *)
(* stack is not synchronised: Push and PopOK read the stack and then       *)
(* write it back, and the model keeps the read and the write as separate   *)
(* steps, so two goroutines that touch the stack at the same time (which   *)
(* Flush allows whenever its TryLock fails) see every outcome of the race: *)
(* an item popped twice, an item overwritten, an item put back.            *)
(***************************************************************************)
EXTENDS Integers, Sequences, FiniteSets, TLC

\* ---- bounds of the model ------------------------------------------------
MaxPush == 2          \* Push calls in one behaviour
MaxPushAlone == 4     \* the same where no Flush runs beside a Push (SpecQuiet)
MaxExt == 2           \* Flush/Close calls of the external caller
MaxFlushSize == 3     \* FlushSize ranges over 1..MaxFlushSize
FlushInterval == 2    \* ticker period, in clock steps
MaxPanics == 1        \* handler invocations that fail in one behaviour
MaxBadSize == 1       \* flushSize arguments go down to -MaxBadSize

Producers == {"p1", "p2"}
Ext == "e1"
Worker == "w"
Threads == Producers \cup {Ext, Worker}
Free == "free"
Items == 1..(IF MaxPush > MaxPushAlone THEN MaxPush ELSE MaxPushAlone)

VARIABLES
    FlushSize,       \* Accumulator.FlushSize
    ResetAfterPush,  \* Accumulator.ResetAfterPush
    Queue,           \* Accumulator.Queue, top of the stack first
    mutex,           \* Accumulator.mutex: Free or the goroutine holding it
    closed,          \* closeChan is closed
    tickPending,     \* a tick waits in ticker.C (a channel of capacity 1)
    timer,           \* clock steps until the ticker fires next
    pc,              \* position of each goroutine
    ret,             \* where a goroutine continues after Flush returns
    path,            \* which call site entered Flush
    lockedHere,      \* Flush: lockedHere
    items,           \* Flush: items
    snap,            \* the stack as read by the stack operation in progress
    item,            \* Push: item
    needsFlush,      \* Push / worker: needsFlush
    \* ---- the callers ----
    pushLimit,       \* Push calls the producers make at most
    nextItem,        \* next fresh item; nextItem - 1 Push calls were made
    extCalls,        \* Flush/Close calls made by the external caller
    closeCalled,     \* Close has been called
    panics,          \* handler invocations that have failed
    \* ---- observers: written, never read, by the actions.  A specification
    \* ---- switches on (in watch) the observers its properties read.
    watch,           \* the observers that are switched on
    handed,          \* per item: times it was handed to the handler (2 = more)
    pushCalls,       \* handler invocations since a Push evaluated needsFlush
    iso,             \* the external call in progress has run alone so far
    isoQ,            \* Queue when that call started
    isoCalls,        \* handler invocations since that call started (2 = more)
    drainQ,          \* Queue when the Flush in progress called TryLock
    sincePush,       \* clock steps since the last Push returned (or construction)
    everGap          \* sincePush has reached FlushInterval at some time

progVars == <<FlushSize, ResetAfterPush, Queue, mutex, closed, tickPending,
              timer, pc, ret, path, lockedHere, items, snap, item, needsFlush>>
progVarsButPc == <<FlushSize, ResetAfterPush, Queue, mutex, closed,
                   tickPending, timer, ret, path, lockedHere, items, snap,
                   item, needsFlush>>
envVars == <<pushLimit, nextItem, extCalls, closeCalled, panics>>
isoVars == <<iso, isoQ, isoCalls>>
obsVars == <<watch, handed, pushCalls, iso, isoQ, isoCalls, drainQ,
             sincePush, everGap>>
vars == <<progVars, envVars, obsVars>>

\* ---- helpers ----------------------------------------------------------
Range(s) == {s[k] : k \in 1..Len(s)}

Min(a, b) == IF a < b THEN a ELSE b

\* how many times x occurs in the sequence s
Occ(x, s) == Cardinality({k \in 1..Len(s) : s[k] = x})

FlushPcs == {"f_try", "f_pop", "f_popw", "f_h", "f_ret"}

InFlush(t) == pc[t] \in FlushPcs

\* the items given to a Push call so far
Pushed == 1..(nextItem - 1)

\* the items whose a.Queue.Push(item) has completed
Appended ==
    {i \in Pushed :
        ~\E p \in Producers :
            item[p] = i /\ pc[p] \in {"p_lock", "p_push", "p_pushw"}}

\* the items whose Push call has returned
Returned == {i \in Pushed : ~\E p \in Producers : item[p] = i}

\* Producers are interchangeable and keep nothing between calls: a call is
\* taken by the first producer that is free.
Before(q, p) == q = "p1" /\ p = "p2"

\* The handler receives batch: what the observers record of it.
Observe(batch) ==
    /\ handed' = IF "handed" \in watch
                    THEN [i \in Items |-> Min(handed[i] + Occ(i, batch), 2)]
                    ELSE handed
    /\ isoCalls' = IF iso THEN Min(isoCalls + 1, 2) ELSE 0
    /\ pushCalls' = IF "calls" \in watch
                       THEN [t \in Threads |->
                               IF t \in Producers
                                  /\ (InFlush(t) \/ pc[t] = "p_reset")
                                  THEN Min(pushCalls[t] + 1, 2) ELSE 0]
                       ELSE pushCalls

\* Another operation starts while the external call runs: it runs alone no more.
NotAlone == iso' = FALSE /\ isoQ' = <<>> /\ isoCalls' = 0

\* ---- the tests of the code --------------------------------------------
\* Where a test is preceded by a faulty variant of it, the properties below
\* must tell the variant from the test itself.
ShouldInvokeAlways(its) == Len(its) >= 0

\* len(items) > 0, the guard of the handler call in Flush
ShouldInvoke(its) == Len(its) > 0

PushNeedsFlushLate(q) == Len(q) > FlushSize

PushNeverFlushes(q) == FALSE

\* a.Queue.Len() >= a.FlushSize in Push
PushNeedsFlush(q) == Len(q) >= FlushSize

\* a.Queue.Len() >= a.FlushSize in worker
WorkerNeedsFlush(q) == Len(q) >= FlushSize

\* ---- construction -----------------------------------------------------
\* NewAccumulator, but for FlushSize: the fields as the constructor leaves
\* them and no call made yet; limit bounds the Push calls to come and
\* watching names the observers switched on.  If live, the ticker runs and
\* the worker is started; if not, time.NewTicker has panicked (line 50): no
\* ticker, no worker, and no accumulator for anyone to call.
Built(limit, watching, live) ==
    /\ Queue = <<>>
    /\ mutex = Free
    /\ closed = FALSE
    /\ tickPending = FALSE
    /\ timer = IF live THEN FlushInterval ELSE 0
    /\ pc = [t \in Threads |->
                IF ~live THEN "panic" ELSE IF t = Worker THEN "select" ELSE "idle"]
    /\ ret = [t \in Threads |-> "idle"]
    /\ path = [t \in Threads |-> "none"]
    /\ lockedHere = [t \in Threads |-> FALSE]
    /\ items = [t \in Threads |-> <<>>]
    /\ snap = [t \in Threads |-> <<>>]
    /\ item = [t \in Threads |-> 0]
    /\ needsFlush = [t \in Threads |-> FALSE]
    /\ pushLimit = limit
    /\ nextItem = 1
    /\ extCalls = 0
    /\ closeCalled = FALSE
    /\ panics = 0
    /\ watch = watching
    /\ handed = [i \in Items |-> 0]
    /\ pushCalls = [t \in Threads |-> 0]
    /\ iso = FALSE
    /\ isoQ = <<>>
    /\ isoCalls = 0
    /\ drainQ = [t \in Threads |-> <<>>]
    /\ sincePush = 0
    /\ everGap = FALSE

\* NewAccumulator called with a positive flushSize and a positive
\* flushInterval
Construct(limit, watching) ==
    /\ FlushSize \in 1..MaxFlushSize
    /\ Built(limit, watching, TRUE)

\* time.NewTicker(flushInterval) panics if flushInterval <= 0
NewTickerPanics(flushInterval) == flushInterval <= 0

\* NewAccumulator(flushSize, flushInterval, flushFunc): the arguments are
\* stored as they come
NewAccumulator(flushSize, flushInterval) ==
    /\ FlushSize = flushSize
    /\ Built(MaxPush, {}, ~NewTickerPanics(flushInterval))
    /\ ResetAfterPush = FALSE

\* ResetAfterPush is false unless the caller sets the field.
Init == Construct(MaxPush, {"handed"}) /\ ResetAfterPush = FALSE

\* ---- Flush, run by goroutine t (accumulator.go 89-105) ------------------
\* a faulty variant: Flush waits for the mutex as a.mutex.Lock() would
LockWaits == mutex = Free

\* a.mutex.TryLock() returns at once, whoever holds the mutex
TryLockReturns == TRUE

\* var lockedHere = a.mutex.TryLock(); items = make([]T, 0, a.Queue.Len())
FlushTry(t) ==
    /\ pc[t] = "f_try"
    /\ TryLockReturns
    /\ lockedHere' = [lockedHere EXCEPT ![t] = (mutex = Free)]
    /\ mutex' = IF mutex = Free THEN t ELSE mutex
    /\ items' = [items EXCEPT ![t] = <<>>]
    /\ drainQ' = IF "drain" \in watch
                    THEN [drainQ EXCEPT ![t] = Queue] ELSE drainQ
    /\ pc' = [pc EXCEPT ![t] = "f_pop"]
    /\ UNCHANGED <<FlushSize, ResetAfterPush, Queue, closed, tickPending,
                   timer, ret, path, snap, item, needsFlush>>
    /\ UNCHANGED envVars
    /\ UNCHANGED <<watch, handed, pushCalls, iso, isoQ, isoCalls, sincePush,
                   everGap>>

\* a.Queue.PopOK(): the read of the stack.  On an empty stack it returns
\* !ok, the loop breaks, and if len(items) > 0 { a.FlushFunc(items) } enters
\* the handler
FlushPopRead(t) ==
    /\ pc[t] = "f_pop"
    /\ snap' = [snap EXCEPT ![t] = Queue]
    /\ IF Queue # <<>>
          THEN /\ pc' = [pc EXCEPT ![t] = "f_popw"]
               /\ UNCHANGED <<handed, isoCalls, pushCalls>>
          ELSE IF ShouldInvoke(items[t])
          THEN /\ pc' = [pc EXCEPT ![t] = "f_h"]
               /\ Observe(items[t])
          ELSE /\ pc' = [pc EXCEPT ![t] = "f_ret"]
               /\ UNCHANGED <<handed, isoCalls, pushCalls>>
    /\ UNCHANGED <<FlushSize, ResetAfterPush, Queue, mutex, closed,
                   tickPending, timer, ret, path, lockedHere, items, item,
                   needsFlush>>
    /\ UNCHANGED envVars
    /\ UNCHANGED <<watch, iso, isoQ, drainQ, sincePush, everGap>>

\* a faulty variant: PopOK takes the oldest item, from the bottom of the stack
FlushPopWriteOldest(t) ==
    /\ pc[t] = "f_popw"
    /\ Queue' = SubSeq(snap[t], 1, Len(snap[t]) - 1)
    /\ items' = [items EXCEPT ![t] = Append(items[t], snap[t][Len(snap[t])])]
    /\ snap' = [snap EXCEPT ![t] = <<>>]
    /\ pc' = [pc EXCEPT ![t] = "f_pop"]
    /\ UNCHANGED <<FlushSize, ResetAfterPush, mutex, closed, tickPending,
                   timer, ret, path, lockedHere, item, needsFlush>>
    /\ UNCHANGED envVars
    /\ UNCHANGED obsVars

\* a.Queue.PopOK(): the write of the stack without its top, and
\* items = append(items, item)
FlushPopWrite(t) ==
    /\ pc[t] = "f_popw"
    /\ Queue' = Tail(snap[t])
    /\ items' = [items EXCEPT ![t] = Append(items[t], Head(snap[t]))]
    /\ snap' = [snap EXCEPT ![t] = <<>>]
    /\ pc' = [pc EXCEPT ![t] = "f_pop"]
    /\ UNCHANGED <<FlushSize, ResetAfterPush, mutex, closed, tickPending,
                   timer, ret, path, lockedHere, item, needsFlush>>
    /\ UNCHANGED envVars
    /\ UNCHANGED obsVars

\* a.FlushFunc(items) returns
HandlerReturn(t) ==
    /\ pc[t] = "f_h"
    /\ pc' = [pc EXCEPT ![t] = "f_ret"]
    /\ UNCHANGED progVarsButPc
    /\ UNCHANGED envVars
    /\ UNCHANGED obsVars

\* Flush returns: the deferred a.mutex.Unlock() runs if lockedHere
FlushReturn(t) ==
    /\ pc[t] = "f_ret"
    /\ mutex' = IF lockedHere[t] THEN Free ELSE mutex
    /\ lockedHere' = [lockedHere EXCEPT ![t] = FALSE]
    /\ items' = [items EXCEPT ![t] = <<>>]
    /\ pc' = [pc EXCEPT ![t] = ret[t]]
    /\ ret' = [ret EXCEPT ![t] = "idle"]
    /\ path' = [path EXCEPT ![t] = "none"]
    /\ drainQ' = [drainQ EXCEPT ![t] = <<>>]
    /\ IF t = Ext /\ ret[t] = "idle"
          THEN NotAlone
          ELSE UNCHANGED isoVars
    /\ UNCHANGED <<FlushSize, ResetAfterPush, Queue, closed, tickPending,
                   timer, snap, item, needsFlush>>
    /\ UNCHANGED envVars
    /\ UNCHANGED <<watch, handed, pushCalls, sincePush, everGap>>

\* a.FlushFunc(items) fails: the handler panics
HandlerPanics(t) ==
    /\ pc[t] = "f_h"
    /\ panics < MaxPanics
    /\ panics' = panics + 1
    /\ pc' = [pc EXCEPT ![t] = "f_panic"]
    /\ UNCHANGED progVarsButPc
    /\ UNCHANGED <<pushLimit, nextItem, extCalls, closeCalled>>
    /\ UNCHANGED obsVars

\* The panic leaves Flush: the deferred a.mutex.Unlock() runs if lockedHere,
\* and the panic goes on in the caller of Flush.  Push has a deferred call
\* of its own.  Close has none and ends before close(a.closeChan); its
\* caller, like the caller of Flush, recovers.  The worker recovers nowhere:
\* a goroutine that ends in a panic ends the program, every goroutine with it.
FlushUnwinds(t) ==
    /\ pc[t] = "f_panic"
    /\ mutex' = IF lockedHere[t] THEN Free ELSE mutex
    /\ lockedHere' = [lockedHere EXCEPT ![t] = FALSE]
    /\ items' = [items EXCEPT ![t] = <<>>]
    /\ pc' = IF t = Worker THEN [u \in Threads |-> "crashed"]
             ELSE IF ret[t] = "p_reset" THEN [pc EXCEPT ![t] = "p_panic"]
             ELSE [pc EXCEPT ![t] = "idle"]
    /\ ret' = [ret EXCEPT ![t] = "idle"]
    /\ path' = [path EXCEPT ![t] = "none"]
    /\ drainQ' = [drainQ EXCEPT ![t] = <<>>]
    /\ IF t = Ext THEN NotAlone ELSE UNCHANGED isoVars
    /\ UNCHANGED <<FlushSize, ResetAfterPush, Queue, closed, tickPending,
                   timer, snap, item, needsFlush>>
    /\ UNCHANGED envVars
    /\ UNCHANGED <<watch, handed, pushCalls, sincePush, everGap>>

\* ---- Push, run by producer p (accumulator.go 75-86) ----------------------
\* A producer calls Push with a fresh item.  No call is made once Close has
\* been called: the accumulator is not to be used after Close.
PushCall(p) ==
    /\ pc[p] = "idle"
    /\ nextItem <= pushLimit
    /\ ~closeCalled
    /\ \A q \in Producers : Before(q, p) => pc[q] # "idle"
    /\ item' = [item EXCEPT ![p] = nextItem]
    /\ nextItem' = nextItem + 1
    /\ NotAlone
    /\ pc' = [pc EXCEPT ![p] = "p_lock"]
    /\ UNCHANGED <<FlushSize, ResetAfterPush, Queue, mutex, closed,
                   tickPending, timer, ret, path, lockedHere, items, snap,
                   needsFlush>>
    /\ UNCHANGED <<panics, pushLimit, extCalls, closeCalled>>
    /\ UNCHANGED <<watch, handed, pushCalls, drainQ, sincePush, everGap>>

\* a.mutex.Lock()
PushLock(p) ==
    /\ pc[p] = "p_lock"
    /\ mutex = Free
    /\ mutex' = p
    /\ pc' = [pc EXCEPT ![p] = "p_push"]
    /\ UNCHANGED <<FlushSize, ResetAfterPush, Queue, closed, tickPending,
                   timer, ret, path, lockedHere, items, snap, item,
                   needsFlush>>
    /\ UNCHANGED envVars
    /\ UNCHANGED obsVars

\* a.Queue.Push(item): the read of the stack
PushRead(p) ==
    /\ pc[p] = "p_push"
    /\ snap' = [snap EXCEPT ![p] = Queue]
    /\ pc' = [pc EXCEPT ![p] = "p_pushw"]
    /\ UNCHANGED <<FlushSize, ResetAfterPush, Queue, mutex, closed,
                   tickPending, timer, ret, path, lockedHere, items, item,
                   needsFlush>>
    /\ UNCHANGED envVars
    /\ UNCHANGED obsVars

\* a.Queue.Push(item): the write of the stack with item on top
PushWrite(p) ==
    /\ pc[p] = "p_pushw"
    /\ Queue' = <<item[p]>> \o snap[p]
    /\ snap' = [snap EXCEPT ![p] = <<>>]
    /\ pc' = [pc EXCEPT ![p] = "p_len"]
    /\ UNCHANGED <<FlushSize, ResetAfterPush, mutex, closed, tickPending,
                   timer, ret, path, lockedHere, items, item, needsFlush>>
    /\ UNCHANGED envVars
    /\ UNCHANGED obsVars

\* var needsFlush bool = a.Queue.Len() >= a.FlushSize; if needsFlush { a.Flush() }
PushLen(p) ==
    /\ pc[p] = "p_len"
    /\ needsFlush' = [needsFlush EXCEPT ![p] = PushNeedsFlush(Queue)]
    /\ IF PushNeedsFlush(Queue)
          THEN /\ pc' = [pc EXCEPT ![p] = "f_try"]
               /\ ret' = [ret EXCEPT ![p] = "p_reset"]
               /\ path' = [path EXCEPT ![p] = "inline"]
          ELSE /\ pc' = [pc EXCEPT ![p] = "p_reset"]
               /\ UNCHANGED <<ret, path>>
    /\ UNCHANGED <<FlushSize, ResetAfterPush, Queue, mutex, closed,
                   tickPending, timer, lockedHere, items, snap, item>>
    /\ UNCHANGED envVars
    /\ UNCHANGED obsVars

\* a.ticker.Reset(a.FlushInterval): the period starts again; a tick already
\* waiting in ticker.C stays there or is dropped, depending on the runtime
TickerReset ==
    /\ timer' = FlushInterval
    /\ tickPending' \in {tickPending, FALSE}

\* a faulty variant: the field is ignored
PushNeverResets == FALSE

\* if a.ResetAfterPush { a.ticker.Reset(a.FlushInterval) }
PushResetsTicker == ResetAfterPush

\* the end of Push: the ticker is reset if asked for, then the deferred
\* a.mutex.Unlock() runs and Push returns
PushReset(p) ==
    /\ pc[p] = "p_reset"
    /\ IF PushResetsTicker
          THEN TickerReset
          ELSE UNCHANGED <<timer, tickPending>>
    /\ mutex' = Free
    /\ needsFlush' = [needsFlush EXCEPT ![p] = FALSE]
    /\ item' = [item EXCEPT ![p] = 0]
    /\ pushCalls' = [pushCalls EXCEPT ![p] = 0]
    /\ sincePush' = 0
    /\ pc' = [pc EXCEPT ![p] = "idle"]
    /\ UNCHANGED <<FlushSize, ResetAfterPush, Queue, closed, ret, path,
                   lockedHere, items, snap>>
    /\ UNCHANGED envVars
    /\ UNCHANGED <<watch, handed, iso, isoQ, isoCalls, drainQ, everGap>>

\* a faulty variant: the Unlock at the end of Push is not deferred
PushUnlockAtEnd == FALSE

\* defer a.mutex.Unlock() in Push: the call runs also when Push panics
PushUnlockDeferred == TRUE

\* The panic of the handler leaves Push: the ticker is not reset, the
\* deferred a.mutex.Unlock() runs, and the caller of Push recovers.
PushUnwinds(p) ==
    /\ pc[p] = "p_panic"
    /\ mutex' = IF PushUnlockDeferred THEN Free ELSE mutex
    /\ needsFlush' = [needsFlush EXCEPT ![p] = FALSE]
    /\ item' = [item EXCEPT ![p] = 0]
    /\ pushCalls' = [pushCalls EXCEPT ![p] = 0]
    /\ pc' = [pc EXCEPT ![p] = "idle"]
    /\ UNCHANGED <<FlushSize, ResetAfterPush, Queue, closed, tickPending,
                   timer, ret, path, lockedHere, items, snap>>
    /\ UNCHANGED envVars
    /\ UNCHANGED <<watch, handed, iso, isoQ, isoCalls, drainQ, sincePush,
                   everGap>>

\* ---- the external caller: Flush and Close (accumulator.go 89, 108-111) ---
\* what the observer of the external call notes when the call starts
ExtStart ==
    /\ extCalls' = extCalls + 1
    /\ iso' = ("iso" \in watch
               /\ (\A p \in Producers : pc[p] = "idle")
               /\ ~InFlush(Worker))
    /\ isoQ' = IF iso' THEN Queue ELSE <<>>
    /\ isoCalls' = 0

\* a.Flush() called from outside.  No call is made once Close has been called.
ExtFlush ==
    /\ pc[Ext] = "idle"
    /\ extCalls < MaxExt
    /\ ~closeCalled
    /\ pc' = [pc EXCEPT ![Ext] = "f_try"]
    /\ ret' = [ret EXCEPT ![Ext] = "idle"]
    /\ path' = [path EXCEPT ![Ext] = "flush"]
    /\ ExtStart
    /\ UNCHANGED <<FlushSize, ResetAfterPush, Queue, mutex, closed,
                   tickPending, timer, lockedHere, items, snap, item,
                   needsFlush>>
    /\ UNCHANGED <<panics, pushLimit, nextItem, closeCalled>>
    /\ UNCHANGED <<watch, handed, pushCalls, drainQ, sincePush, everGap>>

\* a faulty variant of Close: the final a.Flush() is left out
CloseCallSkipsFlush ==
    /\ pc[Ext] = "idle"
    /\ extCalls < MaxExt
    /\ ~closeCalled
    /\ closeCalled' = TRUE
    /\ pc' = [pc EXCEPT ![Ext] = "c_close"]
    /\ ExtStart
    /\ UNCHANGED <<FlushSize, ResetAfterPush, Queue, mutex, closed,
                   tickPending, timer, ret, path, lockedHere, items, snap,
                   item, needsFlush>>
    /\ UNCHANGED <<panics, pushLimit, nextItem>>
    /\ UNCHANGED <<watch, handed, pushCalls, drainQ, sincePush, everGap>>

\* Close(): a.Flush() first.  Close is called once.
CloseCall ==
    /\ pc[Ext] = "idle"
    /\ extCalls < MaxExt
    /\ ~closeCalled
    /\ closeCalled' = TRUE
    /\ pc' = [pc EXCEPT ![Ext] = "f_try"]
    /\ ret' = [ret EXCEPT ![Ext] = "c_close"]
    /\ path' = [path EXCEPT ![Ext] = "close"]
    /\ ExtStart
    /\ UNCHANGED <<FlushSize, ResetAfterPush, Queue, mutex, closed,
                   tickPending, timer, lockedHere, items, snap, item,
                   needsFlush>>
    /\ UNCHANGED <<panics, pushLimit, nextItem>>
    /\ UNCHANGED <<watch, handed, pushCalls, drainQ, sincePush, everGap>>

\* Close(): close(a.closeChan), and Close returns
CloseChan ==
    /\ pc[Ext] = "c_close"
    /\ closed' = TRUE
    /\ pc' = [pc EXCEPT ![Ext] = "idle"]
    /\ NotAlone
    /\ UNCHANGED <<FlushSize, ResetAfterPush, Queue, mutex, tickPending,
                   timer, ret, path, lockedHere, items, snap, item,
                   needsFlush>>
    /\ UNCHANGED envVars
    /\ UNCHANGED <<watch, handed, pushCalls, drainQ, sincePush, everGap>>

\* ---- worker (accumulator.go 55-72) ---------------------------------------
\* case <-a.closeChan: return
WorkerClose ==
    /\ pc[Worker] = "select"
    /\ closed
    /\ pc' = [pc EXCEPT ![Worker] = "done"]
    /\ UNCHANGED progVarsButPc
    /\ UNCHANGED envVars
    /\ UNCHANGED obsVars

\* case <-a.ticker.C: a.Flush()
WorkerTick ==
    /\ pc[Worker] = "select"
    /\ tickPending
    /\ tickPending' = FALSE
    /\ NotAlone
    /\ pc' = [pc EXCEPT ![Worker] = "f_try"]
    /\ ret' = [ret EXCEPT ![Worker] = "select"]
    /\ path' = [path EXCEPT ![Worker] = "tick"]
    /\ UNCHANGED <<FlushSize, ResetAfterPush, Queue, mutex, closed, timer,
                   lockedHere, items, snap, item, needsFlush>>
    /\ UNCHANGED envVars
    /\ UNCHANGED <<watch, handed, pushCalls, drainQ, sincePush, everGap>>

\* default: taken only when neither channel is ready
WorkerDefault ==
    /\ pc[Worker] = "select"
    /\ ~closed
    /\ ~tickPending
    /\ pc' = [pc EXCEPT ![Worker] = "w_lock"]
    /\ UNCHANGED progVarsButPc
    /\ UNCHANGED envVars
    /\ UNCHANGED obsVars

\* a.mutex.Lock()
WorkerLock ==
    /\ pc[Worker] = "w_lock"
    /\ mutex = Free
    /\ mutex' = Worker
    /\ pc' = [pc EXCEPT ![Worker] = "w_chk"]
    /\ UNCHANGED <<FlushSize, ResetAfterPush, Queue, closed, tickPending,
                   timer, ret, path, lockedHere, items, snap, item,
                   needsFlush>>
    /\ UNCHANGED envVars
    /\ UNCHANGED obsVars

\* var needsFlush bool = a.Queue.Len() >= a.FlushSize; if needsFlush { a.Flush() }
WorkerCheck ==
    /\ pc[Worker] = "w_chk"
    /\ needsFlush' = [needsFlush EXCEPT ![Worker] = WorkerNeedsFlush(Queue)]
    /\ IF WorkerNeedsFlush(Queue)
          THEN /\ pc' = [pc EXCEPT ![Worker] = "f_try"]
               /\ ret' = [ret EXCEPT ![Worker] = "w_unlock"]
               /\ path' = [path EXCEPT ![Worker] = "poll"]
               /\ NotAlone
          ELSE /\ pc' = [pc EXCEPT ![Worker] = "w_unlock"]
               /\ UNCHANGED <<ret, path, iso, isoQ, isoCalls>>
    /\ UNCHANGED <<FlushSize, ResetAfterPush, Queue, mutex, closed,
                   tickPending, timer, lockedHere, items, snap, item>>
    /\ UNCHANGED envVars
    /\ UNCHANGED <<watch, handed, pushCalls, drainQ, sincePush, everGap>>

\* a.mutex.Unlock(); time.Sleep(a.FlushInterval / 10); the loop starts
\* again.  The sleep only delays the worker: clock steps pass on their own.
WorkerUnlock ==
    /\ pc[Worker] = "w_unlock"
    /\ mutex' = Free
    /\ needsFlush' = [needsFlush EXCEPT ![Worker] = FALSE]
    /\ pc' = [pc EXCEPT ![Worker] = "select"]
    /\ UNCHANGED <<FlushSize, ResetAfterPush, Queue, closed, tickPending,
                   timer, ret, path, lockedHere, items, snap, item>>
    /\ UNCHANGED envVars
    /\ UNCHANGED obsVars

\* ---- the ticker created by time.NewTicker(flushInterval) -----------------
\* The period ends at some moment and a tick is sent to ticker.C, whose
\* buffer of one keeps a single tick.  The moment is left open here: a
\* goroutine's steps take any time.
TickFire ==
    /\ ~tickPending
    /\ tickPending' = TRUE
    /\ UNCHANGED <<FlushSize, ResetAfterPush, Queue, mutex, closed, timer,
                   pc, ret, path, lockedHere, items, snap, item, needsFlush>>
    /\ UNCHANGED envVars
    /\ UNCHANGED obsVars

\* The same ticker against a clock: one clock step passes, and when the
\* period is over a tick is sent to ticker.C and the next period starts.
Tick ==
    /\ IF timer > 1
          THEN /\ timer' = timer - 1
               /\ UNCHANGED tickPending
          ELSE /\ timer' = FlushInterval
               /\ tickPending' = TRUE
    /\ sincePush' = Min(sincePush + 1, FlushInterval)
    /\ everGap' = (everGap \/ sincePush + 1 >= FlushInterval)
    /\ UNCHANGED <<FlushSize, ResetAfterPush, Queue, mutex, closed, pc,
                   ret, path, lockedHere, items, snap, item, needsFlush>>
    /\ UNCHANGED envVars
    /\ UNCHANGED <<watch, handed, pushCalls, iso, isoQ, isoCalls, drainQ>>

\* ---- specifications ----------------------------------------------------
FlushStep ==
    \/ \E t \in Threads : FlushTry(t)
    \/ \E t \in Threads : FlushPopRead(t)
    \/ \E t \in Threads : FlushPopWrite(t)
    \/ \E t \in Threads : HandlerReturn(t)
    \/ \E t \in Threads : FlushReturn(t)

PushStep ==
    \/ \E p \in Producers : PushCall(p)
    \/ \E p \in Producers : PushLock(p)
    \/ \E p \in Producers : PushRead(p)
    \/ \E p \in Producers : PushWrite(p)
    \/ \E p \in Producers : PushLen(p)
    \/ \E p \in Producers : PushReset(p)

PollStep ==
    \/ WorkerDefault
    \/ WorkerLock
    \/ WorkerCheck
    \/ WorkerUnlock

\* Every goroutine and every caller, the ticker firing at any moment.
Next ==
    \/ FlushStep
    \/ PushStep
    \/ PollStep
    \/ ExtFlush
    \/ CloseCall
    \/ CloseChan
    \/ WorkerClose
    \/ WorkerTick
    \/ TickFire

Spec == Init /\ [][Next]_vars

\* The same program, observed for the external call that runs alone.
InitIso == Construct(MaxPush, {"iso"}) /\ ResetAfterPush = FALSE

SpecIso == InitIso /\ [][Next]_vars

\* Producers and the worker with its ticker, observed for what each Flush
\* drains and hands over; nobody calls Flush or Close from outside.
InitDrain == Construct(MaxPush, {"drain", "handed"}) /\ ResetAfterPush = FALSE

NextCore ==
    \/ FlushStep
    \/ PushStep
    \/ PollStep
    \/ WorkerTick
    \/ TickFire

SpecDrain == InitDrain /\ [][NextCore]_vars

\* Producers and the worker alone: no tick arrives, and nobody calls Flush
\* or Close from outside.
InitQuiet == Construct(MaxPushAlone, {"handed", "calls"}) /\ ResetAfterPush \in BOOLEAN

NextQuiet ==
    \/ FlushStep
    \/ PushStep
    \/ PollStep

SpecQuiet == InitQuiet /\ [][NextQuiet]_vars

\* Producers and the worker against the clock, the caller having set
\* ResetAfterPush or not.
InitTimed == Construct(MaxPush, {}) /\ ResetAfterPush \in BOOLEAN

NextTimed ==
    \/ FlushStep
    \/ PushStep
    \/ PollStep
    \/ WorkerTick
    \/ Tick

SpecTimed == InitTimed /\ [][NextTimed]_vars

\* No observer switched on; the goroutines run under the
\* scheduling the runtime gives: a goroutine that can take a step takes one
\* (the handler returns), and a goroutine waiting in a.mutex.Lock() gets the
\* mutex if it is released again and again (sync.Mutex hands the mutex to a
\* waiter that has waited long).  Calls from outside and ticks need not come.
InitLive == Construct(MaxPush, {}) /\ ResetAfterPush = FALSE

\* the steps goroutine t takes without waiting for the mutex
Runs(t) ==
    \/ FlushTry(t) \/ FlushPopRead(t) \/ FlushPopWrite(t)
    \/ HandlerReturn(t) \/ FlushReturn(t)
    \/ t \in Producers
          /\ (PushRead(t) \/ PushWrite(t) \/ PushLen(t) \/ PushReset(t))
    \/ t = Worker
          /\ (WorkerClose \/ WorkerTick \/ WorkerDefault \/ WorkerCheck
                 \/ WorkerUnlock)
    \/ t = Ext /\ CloseChan

Fairness ==
    /\ \A t \in Threads : WF_vars(Runs(t))
    /\ \A p \in Producers : SF_vars(PushLock(p))
    /\ SF_vars(WorkerLock)

\* Producers, the worker with its ticker, and Close called from outside.
NextLive ==
    \/ FlushStep
    \/ PushStep
    \/ PollStep
    \/ CloseCall
    \/ CloseChan
    \/ WorkerClose
    \/ WorkerTick
    \/ TickFire

SpecLive == InitLive /\ [][NextLive]_vars /\ Fairness

\* One client that makes its calls one after the other (Push, Flush, Close),
\* and the polling worker; no tick.
InitSolo == Construct(MaxPushAlone, {"handed"}) /\ ResetAfterPush = FALSE

NextSolo ==
    \/ FlushStep
    \/ PollStep
    \/ pc[Ext] = "idle" /\ PushCall("p1")
    \/ \E p \in Producers : PushLock(p)
    \/ \E p \in Producers : PushRead(p)
    \/ \E p \in Producers : PushWrite(p)
    \/ \E p \in Producers : PushLen(p)
    \/ \E p \in Producers : PushReset(p)
    \/ pc["p1"] = "idle" /\ ExtFlush
    \/ pc["p1"] = "idle" /\ CloseCall
    \/ CloseChan
    \/ WorkerClose

SpecSolo == InitSolo /\ [][NextSolo]_vars

\* The handler may fail.
PanicStep ==
    \/ \E t \in Threads : HandlerPanics(t)
    \/ \E t \in Threads : FlushUnwinds(t)
    \/ \E p \in Producers : PushUnwinds(p)

\* Producers and the polling worker, no tick and no call from outside; the
\* handler may fail.
InitPushFail == Construct(MaxPushAlone, {"handed"}) /\ ResetAfterPush \in BOOLEAN

NextPushFail ==
    \/ NextQuiet
    \/ PanicStep

SpecPushFail == InitPushFail /\ [][NextPushFail]_vars

\* Producers and the worker with its ticker; the handler may fail.
InitWorkerFail == Construct(MaxPush, {"handed"}) /\ ResetAfterPush = FALSE

NextWorkerFail ==
    \/ NextCore
    \/ PanicStep

SpecWorkerFail == InitWorkerFail /\ [][NextWorkerFail]_vars

\* NewAccumulator called with any arguments, then producers and the worker
\* with its ticker.
InitAny ==
    \E flushSize \in (0 - MaxBadSize)..MaxFlushSize,
       flushInterval \in {0 - FlushInterval, 0, FlushInterval} :
        NewAccumulator(flushSize, flushInterval)

SpecAny == InitAny /\ [][NextCore]_vars

TypeOK ==
    /\ FlushSize \in (0 - MaxBadSize)..MaxFlushSize
    /\ mutex \in Threads \cup {Free}
    /\ timer \in 0..FlushInterval
    /\ nextItem \in 1..(pushLimit + 1)

\* ---- properties ---------------------------------------------------------
AllIdle == \A t \in Producers \cup {Ext} : pc[t] = "idle"

\* C1: no item is handed to the handler twice (in one batch or in two), and
\* an item handed to the handler was pushed before.
NoItemTwice ==
    \A i \in Items : handed[i] <= 1 /\ (handed[i] >= 1 => i \in Appended)

\* C2: no pushed item is lost: once every call has returned and no Flush is
\* running, an item pushed has been handed to the handler or is still in the
\* Queue, from where the next Flush or Close delivers it.
NoItemLost ==
    (AllIdle /\ ~InFlush(Worker))
        => \A i \in Pushed : handed[i] >= 1 \/ i \in Range(Queue)

\* C3: with no tick and no outside call, a Push that brings the length to
\* FlushSize invokes the handler exactly once before it returns, with the
\* FlushSize items pushed since the previous flush, and leaves the Queue empty.
InlineFlushOnce ==
    \A p \in Producers :
        /\ (pc[p] = "f_pop" /\ Queue = <<>>)
               => Range(items[p]) = {i \in Appended : handed[i] = 0}
        /\ pc[p] \in {"f_h", "f_ret"}
               => /\ Len(items[p]) = FlushSize
                  /\ \A i \in Range(items[p]) :
                         Occ(i, items[p]) = 1 /\ handed[i] = 1
        /\ (pc[p] = "p_reset" /\ needsFlush[p])
               => /\ pushCalls[p] = 1
                  /\ Queue = <<>>
                  /\ \A i \in Appended : handed[i] = 1
        /\ (pc[p] = "p_reset" /\ ~needsFlush[p]) => pushCalls[p] = 0

InlineFlushOnceWitness ==
    \E p \in Producers :
        /\ pc[p] = "p_reset"
        /\ needsFlush[p]
        /\ FlushSize = 2
        /\ pushCalls[p] = 1
        /\ \A i \in 1..2 : handed[i] = 1

\* C4: the handler is not invoked while fewer than FlushSize items have been
\* pushed since the last flush, unless a tick or an outside call asks for it:
\* at the step where Push or the worker's poll invokes the handler, with no
\* tick waiting and no tick-driven Flush running, the batch holds at least
\* FlushSize items that no batch held before.
NoEarlyInvoke ==
    [][\A t \in Threads :
          (/\ pc[t] = "f_pop"
           /\ pc'[t] = "f_h"
           /\ path[t] \in {"inline", "poll"}
           /\ ~(InFlush(Worker) /\ path[Worker] = "tick")
           /\ ~tickPending)
              => Cardinality({i \in Range(items[t]) : handed[i] = 0})
                     >= FlushSize]_vars

\* C5: Close called while nothing else runs invokes the handler once, with
\* what the Queue held, or not at all when the Queue was empty; it then closes
\* closeChan and returns, whatever the worker is doing.
CloseAlone ==
    /\ (iso /\ path[Ext] = "close" /\ pc[Ext] = "f_h")
           => isoQ # <<>> /\ items[Ext] = isoQ /\ isoCalls = 1
    /\ (iso /\ path[Ext] = "close" /\ pc[Ext] = "f_ret")
           => items[Ext] = isoQ /\ isoCalls = (IF isoQ = <<>> THEN 0 ELSE 1)
    /\ (iso /\ pc[Ext] = "c_close")
           => Queue = <<>> /\ isoCalls = (IF isoQ = <<>> THEN 0 ELSE 1)
    /\ (closeCalled /\ pc[Ext] = "idle") => closed

CloseAloneWitness ==
    /\ iso
    /\ pc[Ext] = "c_close"
    /\ isoQ # <<>>
    /\ isoCalls = 1
    /\ pc[Worker] \notin {"done", "select"}

\* C6: with ResetAfterPush false, no Close and no outside Flush, an item
\* pushed while fewer items than FlushSize were ever pushed is delivered by
\* the worker's tick: once the Queue is empty and nothing runs, every item
\* whose Push returned has been handed to the handler.
TickDelivers ==
    (/\ ~ResetAfterPush
     /\ ~closeCalled
     /\ extCalls = 0
     /\ Cardinality(Pushed) < FlushSize
     /\ AllIdle
     /\ ~InFlush(Worker)
     /\ Queue = <<>>)
        => \A i \in Returned : handed[i] >= 1

\* C7: a Flush that finds the Queue empty does nothing, on every path: the
\* handler never receives an empty batch, and a Flush called on an empty
\* Queue while nothing else runs invokes nothing and leaves the Queue empty.
EmptyFlushNoOp ==
    /\ \A t \in Threads : pc[t] = "f_h" => items[t] # <<>>
    /\ (iso /\ isoQ = <<>> /\ pc[Ext] = "f_ret")
           => isoCalls = 0 /\ items[Ext] = <<>> /\ Queue = <<>>

EmptyFlushNoOpWitness ==
    /\ iso
    /\ isoQ = <<>>
    /\ pc[Ext] = "f_ret"
    /\ path[Ext] = "flush"
    /\ extCalls = 2
    /\ Pushed # {}

\* C8: with ResetAfterPush true the ticker's period restarts at every Push:
\* the next tick comes FlushInterval after the last Push, so while no
\* FlushInterval has passed without a Push no tick arrives and the worker
\* makes no tick-driven Flush.
ResetDefersTick ==
    ResetAfterPush =>
        /\ sincePush < FlushInterval => timer = FlushInterval - sincePush
        /\ ~everGap => /\ ~tickPending
                       /\ ~(InFlush(Worker) /\ path[Worker] = "tick")

ResetDefersTickWitness ==
    /\ ResetAfterPush
    /\ everGap
    /\ Cardinality(Returned) = 2
    /\ pc[Worker] = "f_h"
    /\ path[Worker] = "tick"
    /\ Len(items[Worker]) = 2

\* C9: with FlushSize 1, producers and the worker only, every batch is a
\* singleton and an item has been handed to the handler when its Push returns.
EveryPushFlushes ==
    (FlushSize = 1 /\ extCalls = 0) =>
        /\ \A t \in Threads : pc[t] = "f_h" => Len(items[t]) = 1
        /\ \A i \in Returned : handed[i] >= 1

\* C10: the batch a Flush hands to the handler is the Queue as it was when
\* that Flush began to drain; nothing pushed later is in it.
BatchIsSnapshot ==
    \A t \in Threads : pc[t] = "f_h" => items[t] = drainQ[t]

\* C11: a goroutine that appends to the Queue, pops from it or reads its
\* length holds the mutex at that moment; in particular a Flush whose TryLock
\* failed drains only while its own goroutine holds the mutex.
LockDiscipline ==
    /\ \A p \in Producers : pc[p] \in {"p_push", "p_pushw", "p_len"} => mutex = p
    /\ pc[Worker] = "w_chk" => mutex = Worker
    /\ \A t \in Threads : pc[t] \in {"f_pop", "f_popw"} => mutex = t

\* C12: every Push call returns, and returns with the mutex released: a
\* producer is outside Push again and again, whatever the other producers,
\* the worker and the caller of Close do, so no Push call lasts forever; and
\* a producer outside Push does not hold the mutex.
PushReturns ==
    /\ \A p \in Producers : []<>(pc[p] = "idle")
    /\ [](\A p \in Producers : pc[p] = "idle" => mutex # p)

PushReturnsWitness ==
    \E p \in Producers :
        /\ pc[p] = "f_h"
        /\ path[p] = "inline"
        /\ mutex = p
        /\ ~lockedHere[p]
        /\ \E q \in Producers : pc[q] = "p_lock"
        /\ closeCalled

\* C13: construction with flushSize <= 0 or flushInterval <= 0 fails: there
\* is no live accumulator and no worker; with both positive the accumulator
\* is live and its worker runs.  (timer = 0: no ticker was made, the interval
\* was not positive.)
ConfigurationChecked ==
    /\ (FlushSize <= 0 \/ timer = 0) => \A t \in Threads : pc[t] = "panic"
    /\ (FlushSize >= 1 /\ timer >= 1) => \A t \in Threads : pc[t] # "panic"

\* C14: the worker checks closeChan first on every cycle: a cycle that
\* begins (the worker is at its select) once closeChan is closed ends the
\* worker; it does not take a tick and call Flush, nor poll.
ShutdownFirst ==
    [][(closed /\ pc[Worker] = "select") => pc'[Worker] \in {"select", "done"}]_vars

\* C15: the handler fails in the inline flush of a Push: the failure reaches
\* the caller of Push with the mutex released, the items of the failed batch
\* are gone from the Queue and are handed to the handler no second time, and
\* a later Push appends, flushes and returns as before.
PushFailure ==
    /\ \A p \in Producers :
           /\ pc[p] \in {"f_panic", "p_panic"} => mutex = p /\ Queue = <<>>
           /\ pc[p] = "idle" => mutex # p
           /\ (pc[p] = "p_reset" /\ needsFlush[p])
                  => Queue = <<>> /\ \A i \in Appended : handed[i] = 1
    /\ \A i \in Items : handed[i] <= 1 /\ (handed[i] = 1 => i \notin Range(Queue))

PushFailureWitness ==
    \E p \in Producers :
        /\ panics = 1
        /\ pc[p] = "p_reset"
        /\ needsFlush[p]
        /\ FlushSize = 2
        /\ \A i \in 1..4 : handed[i] = 1

\* C16: the handler fails in a Flush of the worker: the worker ends, and
\* that is all: the producers are not brought down, their Push calls go on.
WorkerFailureContained ==
    \A p \in Producers : pc[p] # "crashed"

\* C17: while the handler runs for a Push or for the worker, the goroutine
\* that invoked it holds the mutex; hence no two handler invocations overlap.
HandlerUnderLock ==
    /\ \A t \in Producers \cup {Worker} : pc[t] = "f_h" => mutex = t
    /\ \A t, u \in Threads : (pc[t] = "f_h" /\ pc[u] = "f_h") => t = u

\* C18: items pushed one after the other and drained by a Flush that runs
\* beside no other operation come most recently pushed first: the batch is
\* the items not yet delivered, in the reverse of the order of their pushes
\* (items are numbered in the order of the Push calls).
NewestFirst ==
    \A t \in Threads :
        pc[t] = "f_h" =>
            /\ items[t] = [k \in 1..Len(items[t]) |-> Cardinality(Appended) + 1 - k]
            /\ \A i \in Appended : handed[i] = 1

NewestFirstWitness ==
    /\ pc[Ext] = "f_h"
    /\ path[Ext] = "flush"
    /\ items[Ext] = <<4, 3>>
    /\ FlushSize = 3

\* C19: whenever the mutex is free the Queue holds fewer than FlushSize
\* items, so the worker's test under the mutex never finds the length at
\* FlushSize and the worker never flushes from its poll.
PollNeverFlushes ==
    /\ mutex = Free => Len(Queue) < FlushSize
    /\ ~needsFlush[Worker]
    /\ path[Worker] # "poll"

PollNeverFlushesWitness ==
    /\ pc[Worker] = "w_unlock"
    /\ mutex = Worker
    /\ FlushSize = 2
    /\ Len(Queue) = 1
    /\ Cardinality(Returned) = 2
    /\ InFlush(Ext)

\* C20: no batch handed to the handler holds more than FlushSize items.
BatchWithinSize ==
    \A t \in Threads : pc[t] = "f_h" => Len(items[t]) <= FlushSize

====
